---- MODULE Spec2Model ----
(***************************************************************************)
(* Model of Yusen.py: the tracked-flag coercion to_bool, the aggregator    *)
(* build_summary and the sheet layout written by to_excel_report.          *)
(*                                                                         *)
(* Text is a sequence of Unicode code points, so that str.strip,           *)
(* str.lower, string equality and the ordering used by sorted() are        *)
(* computed as Python computes them.                                       *)
(***************************************************************************)
EXTENDS Integers, Sequences, FiniteSets, TLC

VARIABLES pc, df, now, summary, error, sheet, x, ret

vars == <<pc, df, now, summary, error, sheet, x, ret>>

(* Bounds of the model. *)
MaxRows == 2
MaxLen == 4

None == [kind |-> "None"]

(***************************************************************************)
(* Python strings                                                          *)
(***************************************************************************)

(* Code points for which str.isspace() holds, up to U+00FF. *)
Whitespace == {9, 10, 11, 12, 13, 28, 29, 30, 31, 32, 133, 160}

RECURSIVE lstrip(_)
lstrip(s) ==
    IF s # <<>> /\ Head(s) \in Whitespace THEN lstrip(Tail(s)) ELSE s

RECURSIVE rstrip(_)
rstrip(s) ==
    IF s # <<>> /\ s[Len(s)] \in Whitespace
    THEN rstrip(SubSeq(s, 1, Len(s) - 1))
    ELSE s

(* str.strip() *)
strip(s) == rstrip(lstrip(s))

(* str.lower(), on the ASCII letters *)
lower(s) == [i \in 1..Len(s) |-> IF s[i] \in 65..90 THEN s[i] + 32 ELSE s[i]]

(* s < t for Python strings: lexicographic on code points, decided at the
   first index i where they differ *)
RECURSIVE StrLessFrom(_, _, _)
StrLessFrom(s, t, i) ==
    IF i > Len(t) THEN FALSE
    ELSE IF i > Len(s) THEN TRUE
    ELSE IF s[i] # t[i] THEN s[i] < t[i]
    ELSE StrLessFrom(s, t, i + 1)

StrLess(s, t) == StrLessFrom(s, t, 1)

(* the sorted sequence q with the string a put in its place *)
RECURSIVE Insert(_, _, _)
Insert(a, q, i) ==
    IF i > Len(q) THEN Append(q, a)
    ELSE IF StrLess(a, q[i])
         THEN SubSeq(q, 1, i - 1) \o <<a>> \o SubSeq(q, i, Len(q))
         ELSE Insert(a, q, i + 1)

(* sorted(S) for a collection of distinct strings *)
RECURSIVE sorted(_)
sorted(S) ==
    IF S = {} THEN <<>>
    ELSE LET a == CHOOSE b \in S : TRUE
         IN Insert(a, sorted(S \ {a}), 1)

Range(s) == {s[i] : i \in 1..Len(s)}

(* decimal digits of a natural number, as str(int) writes them *)
RECURSIVE Digits(_)
Digits(n) ==
    IF n < 10 THEN <<48 + n>> ELSE Digits(n \div 10) \o <<48 + (n % 10)>>

(***************************************************************************)
(* Cell values of the uploaded sheet                                       *)
(***************************************************************************)
NaN == [kind |-> "nan"]
BoolVal(b) == [kind |-> "bool", b |-> b]
StrVal(s) == [kind |-> "str", s |-> s]
IntVal(n) == [kind |-> "int", n |-> n]

isinstance_bool(v) == v.kind = "bool"

(* pd.isna on a scalar *)
isna(v) == v.kind \in {"nan", "NaT"}

(* str(v) *)
str(v) ==
    CASE v.kind = "str" -> v.s
      [] v.kind = "int" -> Digits(v.n)
      [] v.kind = "bool" ->
            IF v.b THEN <<84, 114, 117, 101>> ELSE <<70, 97, 108, 115, 101>>
      [] OTHER -> <<110, 97, 110>>

(* "true", "1", "yes", "y", "t" *)
TrueTokens ==
    {<<116, 114, 117, 101>>, <<49>>, <<121, 101, 115>>, <<121>>, <<116>>}

(* "false", "0", "no", "n", "f" *)
FalseTokens ==
    {<<102, 97, 108, 115, 101>>, <<48>>, <<110, 111>>, <<110>>, <<102>>}

to_bool_no_lower(v) ==
    IF isinstance_bool(v) THEN v.b
    ELSE IF isna(v) THEN FALSE
    ELSE LET s == strip(str(v))
         IN IF s \in TrueTokens THEN TRUE
            ELSE IF s \in FalseTokens THEN FALSE
            ELSE FALSE

to_bool(v) ==
    IF isinstance_bool(v) THEN v.b
    ELSE IF isna(v) THEN FALSE
    ELSE LET s == lower(strip(str(v)))
         IN IF s \in TrueTokens THEN TRUE
            ELSE IF s \in FalseTokens THEN FALSE
            ELSE FALSE

(***************************************************************************)
(* Column names and the tenants that must always appear                    *)
(***************************************************************************)
Tenant_Name == <<84, 101, 110, 97, 110, 116, 32, 78, 97, 109, 101>>
Tracked == <<84, 114, 97, 99, 107, 101, 100>>
Period_Date == <<80, 101, 114, 105, 111, 100, 32, 68, 97, 116, 101>>
YearMonth == <<89, 101, 97, 114, 77, 111, 110, 116, 104>>
Volume_Created ==
    <<86, 111, 108, 117, 109, 101, 95, 67, 114, 101, 97, 116, 101, 100>>
Volume_Tracked ==
    <<86, 111, 108, 117, 109, 101, 95, 84, 114, 97, 99, 107, 101, 100>>
Volume_Not_Tracked ==
    <<86, 111, 108, 117, 109, 101, 95, 78, 111, 116, 95,
      84, 114, 97, 99, 107, 101, 100>>
Tracked_Percentage ==
    <<84, 114, 97, 99, 107, 101, 100, 95,
      80, 101, 114, 99, 101, 110, 116, 97, 103, 101>>

(* "Yusen Logistics " *)
Yusen_Logistics ==
    <<89, 117, 115, 101, 110, 32, 76, 111, 103, 105, 115, 116, 105, 99, 115, 32>>

(* Benelux B.V., Czech s.r.o., France S.A.S., Poland Sp. z.o.o., Slovakia,
   Germany, Hungary, each after "Yusen Logistics " *)
REQUIRED_TENANTS ==
    << Yusen_Logistics \o <<66, 101, 110, 101, 108, 117, 120, 32, 66, 46, 86, 46>>,
       Yusen_Logistics \o <<67, 122, 101, 99, 104, 32, 115, 46, 114, 46, 111, 46>>,
       Yusen_Logistics \o <<70, 114, 97, 110, 99, 101, 32, 83, 46, 65, 46, 83, 46>>,
       Yusen_Logistics \o <<80, 111, 108, 97, 110, 100, 32, 83, 112, 46, 32,
                            122, 46, 111, 46, 111, 46>>,
       Yusen_Logistics \o <<83, 108, 111, 118, 97, 107, 105, 97>>,
       Yusen_Logistics \o <<71, 101, 114, 109, 97, 110, 121>>,
       Yusen_Logistics \o <<72, 117, 110, 103, 97, 114, 121>> >>

Unknown == <<85, 110, 107, 110, 111, 119, 110>>

(***************************************************************************)
(* Dates                                                                   *)
(***************************************************************************)
NaT == [kind |-> "NaT"]
DateVal(y, m, d) == [kind |-> "date", y |-> y, m |-> m, d |-> d]

IsLeap(y) == (y % 4 = 0 /\ y % 100 # 0) \/ y % 400 = 0

DaysInMonth(y, m) ==
    IF m = 2 THEN (IF IsLeap(y) THEN 29 ELSE 28)
    ELSE IF m \in {4, 6, 9, 11} THEN 30 ELSE 31

(* pd.to_datetime(v, errors="coerce") on one cell: a calendar date parses,
   anything else becomes NaT *)
to_datetime(v) ==
    IF v.kind = "date" /\ v.m \in 1..12 /\ v.d \in 1..DaysInMonth(v.y, v.m)
    THEN [kind |-> "Timestamp", y |-> v.y, m |-> v.m, d |-> v.d]
    ELSE NaT

(* the digits of n, zero-padded on the left to width w *)
RECURSIVE ZeroPad(_, _)
ZeroPad(s, w) == IF Len(s) >= w THEN s ELSE ZeroPad(<<48>> \o s, w)

FormatYm_unpadded(t) == Digits(t.y) \o <<45>> \o Digits(t.m)

(* the "%Y-%m" text of a timestamp: str(Period('M')) and strftime("%Y-%m") *)
FormatYm(t) == ZeroPad(Digits(t.y), 4) \o <<45>> \o ZeroPad(Digits(t.m), 2)

(***************************************************************************)
(* build_summary                                                           *)
(***************************************************************************)
RECURSIVE Flatten(_)
Flatten(ss) == IF ss = <<>> THEN <<>> ELSE Head(ss) \o Flatten(Tail(ss))

(* needle in haystack, for Python strings *)
Contains(needle, hay) ==
    \E i \in 0..(Len(hay) - Len(needle)) :
        SubSeq(hay, i + 1, i + Len(needle)) = needle

ValueError(column, alt) ==
    [type |-> "ValueError", column |-> column, alt_cols |-> alt]

(* df["Tenant Name"].fillna("Unknown").astype(str).str.strip() *)
clean_tenant(v) == strip(str(IF isna(v) THEN StrVal(Unknown) ELSE v))

(* the frame after "Clean + parse", rows with NaT dropped *)
clean(d) ==
    LET parsed == [i \in 1..Len(d.rows) |->
                      (Tenant_Name :> clean_tenant(d.rows[i][Tenant_Name]))
                   @@ (Tracked :> to_bool(d.rows[i][Tracked]))
                   @@ (Period_Date :> to_datetime(d.rows[i][Period_Date]))]
        notna(r) == r[Period_Date] # NaT
        kept == SelectSeq(parsed, notna)
    IN [i \in 1..Len(kept) |->
           kept[i] @@ (YearMonth :> FormatYm(kept[i][Period_Date]))]

(* months: the sorted distinct YearMonth of the frame, or the current month *)
summary_months(rows, clock) ==
    LET months == sorted({rows[i][YearMonth] : i \in 1..Len(rows)})
    IN IF months = <<>> THEN <<FormatYm(clock)>> ELSE months

(* the zero-rows appended for the required tenants absent from the frame *)
placeholder_rows(rows, months) ==
    LET existing_tenants == {rows[i][Tenant_Name] : i \in 1..Len(rows)}
        is_missing(t) == t \notin existing_tenants
        missing_required == SelectSeq(REQUIRED_TENANTS, is_missing)
    IN Flatten([a \in 1..Len(missing_required) |->
                  [b \in 1..Len(months) |->
                        (Tenant_Name :> missing_required[a])
                     @@ (Tracked :> FALSE)
                     @@ (Period_Date :> NaT)
                     @@ (YearMonth :> months[b])]])

(* ("Tracked", "count"): the non-null values of the group *)
count(group) == Cardinality({i \in DOMAIN group : group[i][Tracked] \in BOOLEAN})

(* np.sum(x.astype(bool)) *)
sum_tracked(group) == Cardinality({i \in DOMAIN group : group[i][Tracked]})

(* np.sum(~x.astype(bool)) *)
sum_not_tracked(group) == Cardinality({i \in DOMAIN group : ~group[i][Tracked]})

RECURSIVE GCD(_, _)
GCD(a, b) == IF b = 0 THEN a ELSE GCD(b, a % b)

(* the float a / b, kept as the fraction in lowest terms *)
Float(a, b) ==
    [kind |-> "float", num |-> a \div GCD(a, b), den |-> b \div GCD(a, b)]

percentage_of_not_tracked(created, tracked) ==
    IF created > 0 THEN Float(created - tracked, created) ELSE Float(0, 1)

(* np.where(Volume_Created > 0, Volume_Tracked / Volume_Created, 0.0) *)
percentage(created, tracked) ==
    IF created > 0 THEN Float(tracked, created) ELSE Float(0, 1)

(* df.groupby(["Tenant Name", "YearMonth"]).agg(...).reset_index(), with
   the Tracked_Percentage column: one row per key that occurs, sorted *)
aggregate(rows) ==
    LET tenants == sorted({rows[i][Tenant_Name] : i \in 1..Len(rows)})
        months_of(t) ==
            sorted({rows[i][YearMonth] :
                       i \in {k \in 1..Len(rows) : rows[k][Tenant_Name] = t}})
        cell(t, m) ==
            LET in_group(r) == r[Tenant_Name] = t /\ r[YearMonth] = m
                group == SelectSeq(rows, in_group)
                created == count(group)
                tracked == sum_tracked(group)
            IN    (Tenant_Name :> t)
               @@ (YearMonth :> m)
               @@ (Volume_Created :> created)
               @@ (Volume_Tracked :> tracked)
               @@ (Volume_Not_Tracked :> sum_not_tracked(group))
               @@ (Tracked_Percentage :> percentage(created, tracked))
        cells_of(t) ==
            LET ms == months_of(t) IN [b \in 1..Len(ms) |-> cell(t, ms[b])]
    IN Flatten([a \in 1..Len(tenants) |-> cells_of(tenants[a])])

(* "date" *)
date_ == <<100, 97, 116, 101>>

(* build_summary(df), called when the clock reads `clock`: either raises
   or returns the summary frame *)
build_summary(d, clock) ==
    IF Tenant_Name \notin d.columns
    THEN [raised |-> TRUE, exc |-> ValueError(Tenant_Name, {})]
    ELSE IF Tracked \notin d.columns
    THEN [raised |-> TRUE, exc |-> ValueError(Tracked, {})]
    ELSE IF Period_Date \notin d.columns
    THEN [raised |-> TRUE,
          exc |-> ValueError(Period_Date,
                     {c \in d.columns : Contains(date_, lower(c))})]
    ELSE LET rows == clean(d)
             months == summary_months(rows, clock)
             add_rows == placeholder_rows(rows, months)
         IN [raised |-> FALSE, value |-> aggregate(rows \o add_rows),
             clock_read |-> rows = <<>>]

(***************************************************************************)
(* to_excel_report                                                         *)
(*                                                                         *)
(* The sheet is the values, number formats and merged ranges that the      *)
(* function writes; fonts, borders, alignments and column widths are       *)
(* styling of cells that already exist and are left out.                   *)
(***************************************************************************)
metrics == <<Volume_Created, Volume_Tracked, Volume_Not_Tracked, Tracked_Percentage>>

(* column m of a summary row, as the float64 the pivot holds *)
AsFloat(r, m) == IF m = Tracked_Percentage THEN r[m] ELSE Float(r[m], 1)

pivot_table_no_fill(s) ==
    LET index == {s[i][Tenant_Name] : i \in 1..Len(s)}
        columns == {s[i][YearMonth] : i \in 1..Len(s)}
        first(t, m, month) ==
            LET hit == {i \in 1..Len(s) :
                           s[i][Tenant_Name] = t /\ s[i][YearMonth] = month}
            IN IF hit = {} THEN NaN
               ELSE LET i == CHOOSE k \in hit : \A l \in hit : k <= l
                    IN AsFloat(s[i], m)
    IN [index |-> sorted(index),
        values |-> [k \in index \X Range(metrics) \X columns |->
                       first(k[1], k[2], k[3])]]

(* summary.pivot_table(index="Tenant Name", columns="YearMonth",
   values=metrics, fill_value=0, aggfunc="first") *)
pivot_table(s) ==
    LET index == {s[i][Tenant_Name] : i \in 1..Len(s)}
        columns == {s[i][YearMonth] : i \in 1..Len(s)}
        first(t, m, month) ==
            LET hit == {i \in 1..Len(s) :
                           s[i][Tenant_Name] = t /\ s[i][YearMonth] = month}
            IN IF hit = {} THEN Float(0, 1)
               ELSE LET i == CHOOSE k \in hit : \A l \in hit : k <= l
                    IN AsFloat(s[i], m)
    IN [index |-> sorted(index),
        values |-> [k \in index \X Range(metrics) \X columns |->
                       first(k[1], k[2], k[3])]]

(* months = sorted(summary["YearMonth"].unique().tolist()) *)
report_months(s) == sorted({s[i][YearMonth] : i \in 1..Len(s)})

ordered_tenants_sorted(all_tenants) ==
    LET not_required(t) == t \notin Range(REQUIRED_TENANTS)
        remaining == sorted(Range(SelectSeq(all_tenants, not_required)))
        ordered == sorted(Range(REQUIRED_TENANTS)) \o remaining
        valid(t) == t \in Range(all_tenants)
    IN SelectSeq(ordered, valid)

(* valid_ordered: REQUIRED_TENANTS first, then the rest alphabetically,
   restricted to the tenants of the pivot *)
ordered_tenants(all_tenants) ==
    LET not_required(t) == t \notin Range(REQUIRED_TENANTS)
        remaining == sorted(Range(SelectSeq(all_tenants, not_required)))
        ordered == REQUIRED_TENANTS \o remaining
        valid(t) == t \in Range(all_tenants)
    IN SelectSeq(ordered, valid)

(* m.replace("_", " ") *)
replace_underscore(m) == [i \in 1..Len(m) |-> IF m[i] = 95 THEN 32 ELSE m[i]]

(* int(value) *)
int(v) == IntVal(v.num \div v.den)

Cell(v, fmt) == [value |-> v, number_format |-> fmt]

start_col == 2

(* col_pointer when the loop over months reaches month number j (from 1):
   it starts at start_col and advances by len(metrics) per month *)
month_col(j) == start_col + (j - 1) * Len(metrics)

(* the "Header" loop: the month label of row 1 at the first column of each
   block and the metric labels of row 2 *)
header_cells(months) ==
    LET row1 == [k \in {<<1, month_col(j)>> : j \in 1..Len(months)} |->
                    Cell(StrVal(months[((k[2] - start_col) \div Len(metrics)) + 1]),
                         "General")]
        row2 == [k \in {<<2, month_col(j) + i>> :
                           j \in 1..Len(months), i \in 0..(Len(metrics) - 1)} |->
                    Cell(StrVal(replace_underscore(
                             metrics[((k[2] - start_col) % Len(metrics)) + 1])),
                         "General")]
    IN row1 @@ row2

(* ws.merge_cells for each month block *)
header_merges(months) ==
    {<<1, month_col(j), 1, month_col(j) + Len(metrics) - 1>> : j \in 1..Len(months)}

(* the value written for (tenant, month, m): pivot.loc[tenant, (m, month)],
   0 on KeyError, int(value) for the volumes when the conversion succeeds *)
data_value(pivot, tenant, month, m) ==
    LET key == <<tenant, m, month>>
        value == IF key \in DOMAIN pivot.values THEN pivot.values[key]
                 ELSE IntVal(0)
    IN IF m = Tracked_Percentage THEN Cell(value, "0.00%")
       ELSE IF value.kind = "float" THEN Cell(int(value), "0")
       ELSE Cell(value, "0")

(* the "Data rows" loop: tenant number i of the pivot's index is written at
   row_pointer = 3 + (i - 1), its name in column 1 and its values from
   start_col on, col_pointer advancing by one per (month, metric) *)
data_cells(pivot, months) ==
    LET rows == 1..Len(pivot.index)
        names == [k \in {<<2 + i, 1>> : i \in rows} |->
                     Cell(StrVal(pivot.index[k[1] - 2]), "General")]
        width == Len(months) * Len(metrics)
        values == [k \in {<<2 + i, start_col + n>> : i \in rows, n \in 0..(width - 1)} |->
                      data_value(pivot, pivot.index[k[1] - 2],
                                 months[((k[2] - start_col) \div Len(metrics)) + 1],
                                 metrics[((k[2] - start_col) % Len(metrics)) + 1])]
    IN names @@ values

(* to_excel_report(summary): the sheet "Summary" of the saved workbook *)
to_excel_report(s) ==
    LET table == pivot_table(s)
        months == report_months(s)
        pivot == [table EXCEPT !.index = ordered_tenants(table.index)]
        a1 == <<1, 1>> :> Cell(StrVal(Tenant_Name), "General")
    IN [title |-> "Summary",
        cells |-> a1 @@ header_cells(months) @@ data_cells(pivot, months),
        merged_cells |-> {<<1, 1, 2, 1>>} \cup header_merges(months),
        freeze_panes |-> "B3"]

(***************************************************************************)
(* The upload handler: read the file, build the summary, render the sheet  *)
(***************************************************************************)
Ship_Date == <<83, 104, 105, 112, 32, 68, 97, 116, 101>>

RequiredColumns == {Tenant_Name, Tracked, Period_Date}

(* " Yusen Logistics Germany ", "Acme Corp", an empty cell *)
TenantCells ==
    {StrVal(<<32>> \o REQUIRED_TENANTS[6] \o <<32>>),
     StrVal(<<65, 99, 109, 101, 32, 67, 111, 114, 112>>),
     NaN}

(* "YES", "nope" *)
TrackedCells == {StrVal(<<89, 69, 83>>), StrVal(<<110, 111, 112, 101>>)}

(* 2023-12-31, 2024-02-29, 2024-10-05 and the impossible 2024-02-30 *)
DateCells ==
    {DateVal(2023, 12, 31), DateVal(2024, 2, 29), DateVal(2024, 10, 5),
     DateVal(2024, 2, 30)}

FullRows ==
    {(Tenant_Name :> t) @@ (Tracked :> k) @@ (Period_Date :> d) @@ (Ship_Date :> NaN) :
        t \in TenantCells, k \in TrackedCells, d \in DateCells}

(* the rows of a sheet that has the given columns *)
RowsOf(columns) == {[c \in columns |-> r[c]] : r \in FullRows}

(* a frame with other than exactly the required columns has at most one row *)
RowLimit(columns) == IF columns = RequiredColumns THEN MaxRows ELSE 1

(* the values datetime.now() may return *)
Clocks ==
    {[kind |-> "Timestamp", y |-> 2026, m |-> 11, d |-> 1],
     [kind |-> "Timestamp", y |-> 2027, m |-> 1, d |-> 15]}

Init ==
    /\ pc = "idle"
    /\ df = None /\ now = None /\ summary = None /\ error = None /\ sheet = None
    /\ x = None /\ ret = None

(* df = pd.read_excel(uploaded) *)
Upload ==
    /\ pc = "idle"
    /\ \E columns \in SUBSET (RequiredColumns \cup {Ship_Date}) :
       \E n \in 0..RowLimit(columns) :
       \E rows \in [1..n -> RowsOf(columns)] :
          df' = [columns |-> columns, rows |-> rows]
    /\ pc' = "loaded"
    /\ UNCHANGED <<now, summary, error, sheet, x, ret>>

(* summary = build_summary(df); an exception is shown by st.error.  The
   clock is the value of datetime.now() during the call, which the call
   reads only when no row has a valid date. *)
BuildSummary ==
    /\ pc = "loaded"
    /\ \E clock \in Clocks :
       \E r \in {build_summary(df, clock)} :
          IF r.raised
          THEN /\ error' = r.exc
               /\ pc' = "error"
               /\ UNCHANGED <<now, summary>>
          ELSE /\ summary' = r.value
               /\ now' = IF r.clock_read THEN clock ELSE now
               /\ pc' = "summarised"
               /\ UNCHANGED error
    /\ UNCHANGED <<df, sheet, x, ret>>

(* xls_bytes = to_excel_report(summary) *)
ToExcelReport ==
    /\ pc = "summarised"
    /\ sheet' = to_excel_report(summary)
    /\ pc' = "rendered"
    /\ UNCHANGED <<df, now, summary, error, x, ret>>

Next == Upload \/ BuildSummary \/ ToExcelReport

Spec == Init /\ [][Next]_vars

(***************************************************************************)
(* Specification of to_bool alone: any scalar in, one call                 *)
(***************************************************************************)

(* space, '0', '1', 'E', 'S', 'Y', 'e', 'n', 'o', 'p', 's', 't', 'y' *)
Alphabet == {32, 48, 49, 69, 83, 89, 101, 110, 111, 112, 115, 116, 121}

Strings(n) == UNION {[1..k -> Alphabet] : k \in 0..n}

Scalars ==
    {BoolVal(TRUE), BoolVal(FALSE), NaN}
        \cup {IntVal(n) : n \in 0..11}
        \cup {StrVal(s) : s \in Strings(MaxLen)}

InitToBool ==
    /\ pc = "to_bool"
    /\ x \in Scalars
    /\ ret = None
    /\ df = None /\ now = None /\ summary = None /\ error = None /\ sheet = None

CallToBool ==
    /\ pc = "to_bool"
    /\ ret' = to_bool(x)
    /\ pc' = "returned"
    /\ UNCHANGED <<df, now, summary, error, sheet, x>>

NextToBool == CallToBool

SpecToBool == InitToBool /\ [][NextToBool]_vars

(* the text is whitespace, then token t in any letter case, then whitespace *)
IsPaddedToken(s, t) ==
    \E i \in 1..(Len(s) + 1) :
        /\ i + Len(t) - 1 <= Len(s)
        /\ \A k \in 1..(i - 1) : s[k] \in Whitespace
        /\ \A k \in (i + Len(t))..Len(s) : s[k] \in Whitespace
        /\ \A k \in 1..Len(t) :
              \/ s[i + k - 1] = t[k]
              \/ t[k] \in 97..122 /\ s[i + k - 1] = t[k] - 32

(* C7: to_bool returns a boolean for every scalar: a boolean maps to
   itself, a missing value to false, and any other value to true exactly
   when its text, trimmed and lower-cased, is one of true, 1, yes, y, t. *)
C7_ToBoolVocabulary ==
    pc = "returned" =>
        /\ ret \in BOOLEAN
        /\ x.kind = "bool" => ret = x.b
        /\ x.kind = "nan" => ret = FALSE
        /\ x.kind \in {"str", "int"} =>
              (ret <=> \E t \in TrueTokens : IsPaddedToken(str(x), t))
        /\ x \in {StrVal(<<89, 69, 83>>), StrVal(<<121, 69, 115>>)} => ret = TRUE
        /\ x \in {StrVal(<<110, 111, 112, 101>>), StrVal(<<110, 111>>),
                  StrVal(<<78, 32>>), IntVal(0)} => ret = FALSE

(* " YeS" has been coerced to true *)
C7_Witness ==
    /\ pc = "returned"
    /\ x = StrVal(<<32, 89, 101, 83>>)
    /\ ret = TRUE

(***************************************************************************)
(* Properties of the summary grid                                          *)
(***************************************************************************)
Built == pc \in {"summarised", "rendered"}

(* the input rows whose date parses, with their canonical tenant and month *)
Surviving == {i \in 1..Len(df.rows) : to_datetime(df.rows[i][Period_Date]) # NaT}
TenantOf(i) == clean_tenant(df.rows[i][Tenant_Name])
MonthOf(i) == FormatYm(to_datetime(df.rows[i][Period_Date]))
IsTracked(i) == to_bool(df.rows[i][Tracked])
RowsFor(t, m) == {i \in Surviving : TenantOf(i) = t /\ MonthOf(i) = m}

Required == Range(REQUIRED_TENANTS)
GridKeys == {<<summary[i][Tenant_Name], summary[i][YearMonth]>> : i \in 1..Len(summary)}
GridTenants == {summary[i][Tenant_Name] : i \in 1..Len(summary)}
GridMonths == {summary[i][YearMonth] : i \in 1..Len(summary)}
TenantUniverse == {TenantOf(i) : i \in Surviving} \cup Required
MonthSet == IF Surviving = {} THEN {FormatYm(now)} ELSE {MonthOf(i) : i \in Surviving}

(* C1: the grid returned by build_summary has a cell for every required
   tenant in every month key of the grid, also when a required tenant has
   rows in some months only. *)
C1_RequiredTenantInEveryMonth ==
    Built => \A r \in Required : \A m \in GridMonths : <<r, m>> \in GridKeys

(* C2: the grid is exactly the cross product of the tenant universe
   (tenants of the rows with a valid date, and the required tenants) and
   the month set, one cell per pair. *)
C2_GridIsCrossProduct ==
    Built =>
        /\ GridKeys = TenantUniverse \X MonthSet
        /\ Len(summary) = Cardinality(GridKeys)

(* C3: in every cell the three volumes count the input rows with a valid
   date of that tenant and month (all, tracked, not tracked); a required
   tenant with no such rows is at zero in all four metrics. *)
C3_VolumesCountInputRows ==
    Built =>
        \A i \in 1..Len(summary) :
            LET rows == RowsFor(summary[i][Tenant_Name], summary[i][YearMonth])
            IN /\ summary[i][Volume_Created] = Cardinality(rows)
               /\ summary[i][Volume_Tracked] =
                      Cardinality({k \in rows : IsTracked(k)})
               /\ summary[i][Volume_Not_Tracked] =
                      Cardinality({k \in rows : ~IsTracked(k)})
               /\ (summary[i][Tenant_Name] \in Required /\ rows = {}) =>
                      /\ summary[i][Volume_Created] = 0
                      /\ summary[i][Volume_Tracked] = 0
                      /\ summary[i][Volume_Not_Tracked] = 0
                      /\ summary[i][Tracked_Percentage].num = 0

(* C4: in every cell Volume Created = Volume Tracked + Volume Not Tracked,
   and Tracked Percentage is Volume Tracked / Volume Created when Volume
   Created > 0 and 0 otherwise, so it lies in [0, 1]. *)
C4_CellMetricsConsistent ==
    Built =>
        \A i \in 1..Len(summary) :
            LET c == summary[i]
                p == c[Tracked_Percentage]
            IN /\ c[Volume_Created] = c[Volume_Tracked] + c[Volume_Not_Tracked]
               /\ p.den > 0
               /\ c[Volume_Created] > 0 =>
                      p.num * c[Volume_Created] = c[Volume_Tracked] * p.den
               /\ c[Volume_Created] = 0 => p.num = 0
               /\ 0 <= p.num /\ p.num <= p.den

(* a cell with two rows of which one is tracked: the percentage is 1/2 *)
C4_Witness ==
    /\ Built
    /\ \E i \in 1..Len(summary) :
          /\ summary[i][Volume_Created] = 2
          /\ summary[i][Volume_Tracked] = 1
          /\ summary[i][Tracked_Percentage] = Float(1, 2)

(* C5: with the required columns and no row with a valid date, the grid
   has the single month of the current date and exactly the seven required
   tenants, each with all four metrics at zero. *)
C5_EmptyInputFallbackGrid ==
    (Built /\ Surviving = {}) =>
        /\ GridMonths = {FormatYm(now)}
        /\ GridTenants = Required
        /\ Len(summary) = Len(REQUIRED_TENANTS)
        /\ \A i \in 1..Len(summary) :
              /\ summary[i][Volume_Created] = 0
              /\ summary[i][Volume_Tracked] = 0
              /\ summary[i][Volume_Not_Tracked] = 0
              /\ summary[i][Tracked_Percentage].num = 0

(* C6: when required columns are absent, build_summary fails before any
   aggregation, returns no grid, and the error names every absent required
   column. *)
C6_MissingColumnsAllNamed ==
    (pc \in {"error", "summarised", "rendered"}
        /\ RequiredColumns \ df.columns # {}) =>
        /\ pc = "error"
        /\ summary = None
        /\ {error.column} = RequiredColumns \ df.columns

(***************************************************************************)
(* Properties of the rendered sheet                                        *)
(***************************************************************************)
Rendered == pc = "rendered"

Written == DOMAIN sheet.cells
DataRows == {rc[1] : rc \in {k \in Written : k[2] = 1 /\ k[1] >= 3}}
NumDataRows == Cardinality(DataRows)
NumMonths == Cardinality(GridMonths)

(* the tenant name in data row i (sheet row 3 + i) *)
TenantAt(i) == sheet.cells[<<3 + i, 1>>].value.s

(* the month labelled at the j-th block (column 2 + 4j of row 1) *)
MonthAt(j) == sheet.cells[<<1, 2 + 4 * j>>].value.s

IndexOf(q, e) == CHOOSE i \in 1..Len(q) : q[i] = e

(* C8: column 1 from row 3 down lists the required tenants of the grid in
   their declared order, then the other tenants of the grid in ascending
   order; every tenant of the grid exactly once and no other name. *)
C8_TenantRowOrder ==
    Rendered =>
        /\ DataRows = 3..(2 + NumDataRows)
        /\ NumDataRows = Cardinality(GridTenants)
        /\ {TenantAt(i) : i \in 0..(NumDataRows - 1)} = GridTenants
        /\ \A i, j \in 0..(NumDataRows - 1) :
              i < j =>
                 LET a == TenantAt(i)
                     b == TenantAt(j)
                 IN /\ a # b
                    /\ b \in Required => a \in Required
                    /\ (a \in Required /\ b \in Required) =>
                          IndexOf(REQUIRED_TENANTS, a) < IndexOf(REQUIRED_TENANTS, b)
                    /\ (a \notin Required /\ b \notin Required) => StrLess(a, b)

(* the input names the two tenants that are not required in descending
   order; the sheet lists them after the seven required tenants, ascending *)
C8_Witness ==
    /\ Rendered
    /\ Len(df.rows) = 2
    /\ TenantOf(1) = Unknown /\ TenantOf(2) # Unknown
    /\ Cardinality(GridTenants \ Required) = 2
    /\ TenantAt(0) = REQUIRED_TENANTS[1]
    /\ TenantAt(NumDataRows - 1) = Unknown

(* every timestamp a month key of the grid can come from *)
KnownTimestamps ==
    ({to_datetime(df.rows[i][Period_Date]) : i \in 1..Len(df.rows)} \ {NaT})
        \cup (IF now = None THEN {} ELSE {now})

(* the calendar month a key denotes, counted in months *)
MonthNumber(key) ==
    LET t == CHOOSE u \in KnownTimestamps : FormatYm(u) = key
    IN 12 * t.y + t.m

MetricLabels ==
    << <<86, 111, 108, 117, 109, 101, 32, 67, 114, 101, 97, 116, 101, 100>>,
       <<86, 111, 108, 117, 109, 101, 32, 84, 114, 97, 99, 107, 101, 100>>,
       <<86, 111, 108, 117, 109, 101, 32, 78, 111, 116, 32,
         84, 114, 97, 99, 107, 101, 100>>,
       <<84, 114, 97, 99, 107, 101, 100, 32,
         80, 101, 114, 99, 101, 110, 116, 97, 103, 101>> >>

(* C9: row 1 carries the distinct months of the grid in strictly ascending
   chronological order; the j-th month is labelled at column 2 + 4j and
   owns the merged columns 2 + 4j .. 5 + 4j, sub-labelled Volume Created,
   Volume Tracked, Volume Not Tracked, Tracked Percentage; the blocks
   neither overlap nor leave a gap. *)
C9_MonthBlocks ==
    Rendered =>
        /\ {k[2] : k \in {rc \in Written : rc[1] = 1}} =
              {1} \cup {2 + 4 * j : j \in 0..(NumMonths - 1)}
        /\ {MonthAt(j) : j \in 0..(NumMonths - 1)} = GridMonths
        /\ \A i, j \in 0..(NumMonths - 1) :
              i < j => MonthNumber(MonthAt(i)) < MonthNumber(MonthAt(j))
        /\ sheet.merged_cells =
              {<<1, 1, 2, 1>>}
                 \cup {<<1, 2 + 4 * j, 1, 5 + 4 * j>> : j \in 0..(NumMonths - 1)}
        /\ {k[2] : k \in {rc \in Written : rc[1] = 2}} = 2..(1 + 4 * NumMonths)
        /\ \A j \in 0..(NumMonths - 1) : \A k \in 0..3 :
              sheet.cells[<<2, 2 + 4 * j + k>>].value = StrVal(MetricLabels[k + 1])

(* the first input row is of October 2024 and a later one of an earlier
   month; the sheet shows both months *)
C9_Witness ==
    /\ Rendered
    /\ NumMonths = 2
    /\ 1 \in Surviving /\ 2 \in Surviving
    /\ df.rows[1][Period_Date] = DateVal(2024, 10, 5)
    /\ df.rows[2][Period_Date] = DateVal(2024, 2, 29)

GridCell(t, m) ==
    summary[CHOOSE i \in 1..Len(summary) :
                summary[i][Tenant_Name] = t /\ summary[i][YearMonth] = m]

(* the value the sheet must show for metric number k of (t, m) *)
Expected(t, m, k) ==
    IF <<t, m>> \in GridKeys
    THEN IF k = 3 THEN GridCell(t, m)[Tracked_Percentage]
         ELSE IntVal(GridCell(t, m)[metrics[k + 1]])
    ELSE IF k = 3 THEN Float(0, 1) ELSE IntVal(0)

(* C10: for the tenant of data row i, the j-th month and the k-th metric,
   the cell at row 3 + i, column 2 + 4j + k holds the grid's value for that
   tenant and month, or 0 when the grid has no such cell; no data cell of
   the 4 x months metric columns is blank. *)
C10_DataCells ==
    Rendered =>
        \A i \in 0..(NumDataRows - 1) :
            /\ {k[2] : k \in {rc \in Written : rc[1] = 3 + i}} = 1..(1 + 4 * NumMonths)
            /\ \A j \in 0..(NumMonths - 1) : \A k \in 0..3 :
                  sheet.cells[<<3 + i, 2 + 4 * j + k>>].value =
                      Expected(TenantAt(i), MonthAt(j), k)

(* a tenant with rows in one month and none in another month of the grid:
   the sheet has been written with zeros for the absent cell *)
C10_Witness ==
    /\ Rendered
    /\ \E t \in GridTenants : \E m1, m2 \in GridMonths :
          /\ <<t, m1>> \in GridKeys
          /\ <<t, m2>> \notin GridKeys
          /\ GridCell(t, m1)[Volume_Tracked] = 1

====
